---------------------------- MODULE Spec2Model ----------------------------
(***************************************************************************)
(* freezeyt: the Flask wrapper (freezeyt/flask_frozen.py), the progress    *)
(* plugins (freezeyt/progressbar.py) and the command line (freezeyt/cli.py)*)
(* around the freezing engine.  The engine itself (freezeyt.freezing) is   *)
(* not among the sources; its Frontier, Redirect Resolver and Coordinator  *)
(* are modelled from spec.md sections 4.2, 4.4, 4.7 and 5.                 *)
(*                                                                         *)
(* Specifications:                                                         *)
(*   Spec       one Freezer.freeze run: engine + hooks of the wrapper      *)
(*   FairSpec   Spec with weak fairness of the workers' steps              *)
(*   SpecUrlFor the url_for interception over two freeze calls             *)
(*   SpecCli    the command line: options, config file, call of freeze     *)
(*   SpecKept   the kept files around one Freezer.freeze call              *)
(***************************************************************************)
EXTENDS Integers, Sequences, FiniteSets, TLC

None == "None"

(***************************************************************************)
(* URLs.  The wrapper's prefix is 'http://localhost:80/'; a URL is internal*)
(* when it starts with the prefix, i.e. has the prefix's host.             *)
(***************************************************************************)
PrefixHost == "localhost:80"
OtherHost == "other-host.example"
Paths == {"/", "/a"}
Url(h, p) == [host |-> h, path |-> p]
NoURL == Url(None, None)
RootURL == Url(PrefixHost, "/")
IntURLs == {Url(PrefixHost, p) : p \in Paths}
ExtURLs == {Url(OtherHost, "/x")}
AllURLs == IntURLs \cup ExtURLs

IsExternal(u) == u.host # PrefixHost

\* A classified error carrying the offending URL.
Err(cls, u) == [cls |-> cls, msg |-> None, url |-> u]
NoErr == Err(None, NoURL)

\* make_relative_url: strip the prefix, keep '/' + the rest.
make_relative_url(prefixHost, u) ==
    IF u.host = prefixHost THEN u.path ELSE "AssertionError"

(***************************************************************************)
(* Bounds of the model.                                                    *)
(***************************************************************************)
NWorkers == 2
MaxLinks == 1
\* Counters of the bookkeeping saturate here: "more than once" is 2.
Sat(n) == IF n >= 2 THEN 2 ELSE n
Workers == 1..NWorkers

(***************************************************************************)
(* Responses of the Request Adapter (the application under freeze).        *)
(***************************************************************************)
SmallSubsets(S, n) == {T \in SUBSET S : Cardinality(T) <= n}

Responses ==
    [kind : {"ok"}, links : SmallSubsets(AllURLs, MaxLinks), target : {NoURL}]
    \cup [kind : {"notfound", "raise"}, links : {{}}, target : {NoURL}]
    \cup [kind : {"redirect"}, links : {{}}, target : AllURLs]

\* The url_for calls a page makes while it is rendered.
UrlForCalls(r) ==
    IF r.kind = "ok" THEN SmallSubsets(IntURLs, MaxLinks) ELSE {{}}

VARIABLES
    appcfg,        \* app.config: FREEZER_REDIRECT_POLICY (or None), strict mode
    phase,         \* "new" | "running" | "returned" | "raised"
    frontier,      \* Frontier + FreezeInfo counters
    fatal,         \* the run-fatal error, or None
    wpc, wtask, weff, wchain, wresp, wlinks,   \* the workers
    fetched,       \* Request Adapter invocations per URL
    claimed,       \* claims per URL
    finished,      \* finish calls per URL
    frozenN, failedN, failedExc,               \* hook invocations per URL
    handling_url_for, freeze_info,             \* closure of Freezer.freeze
    recorded_urls,
    bar, logline,  \* what ProgressBarPlugin and LogPlugin last computed
    claimAfterFatal,
    extSeen,       \* external URLs met as a link or a redirect target
    result         \* what Freezer.freeze returned or raised

\* The url_for interception of Freezer.freeze, step by step (SpecUrlFor).
VARIABLES
    url_default_functions,  \* app.url_default_functions[None]: handler ids
    closure,       \* per freeze call: its freeze_info and handling_url_for
    lock,          \* per freeze call: its RLock (owner, count)
    run,           \* per freeze call: "none" | "begun" | "started" | "ended"
    stack,         \* per thread: the call stack of url_for / handle_url_for
    raising,       \* per thread: an exception is propagating
    ncalls,        \* per thread: top-level url_for calls made
    adds,          \* per freeze call: add_url calls on its FreezeInfo
    callAdds,      \* per thread: add_url calls of its current top-level call
    callAfter,     \* per thread: that call began after run 1's start hook
    addAfterEnd,   \* per freeze call: add_url reached it after freeze ended
    addOnNone,     \* add_url was called on a freeze_info that is still None
    everRaised     \* url_for or add_url has raised inside handle_url_for

\* The command line, freezeyt/cli.py (SpecCli).
VARIABLES
    argv,          \* what the user typed, and how the application behaves
    cliPc,         \* "parse" | "params" | "config" | "freeze" | "exit"
    cli_params,    \* the dict main builds
    freeze_call,   \* the config freeze() was called with (called: BOOLEAN)
    exit_code,     \* the process's exit code; -1 while it runs
    dest           \* the destination directory

\* The kept files of Freezer.freeze (SpecKept).
VARIABLES
    keptCfg,       \* FREEZER_REMOVE_EXTRA_FILES, _SKIP_EXISTING, _DESTINATION_IGNORE
    before,        \* the output root before the call
    root,          \* the output root: exists, and each path's content
    temp,          \* kept_file_dir: None (made = FALSE) or the saved files
    keptPc,        \* "save" | "rmtree" | "freeze" | "mkdir" | "restore" | "done"
    restoreLeft,   \* files of the temporary directory not yet walked
    frozenOut,     \* the files the freeze wrote
    keptErr        \* the exception restore_kept_files raised, or None

engineVars == <<appcfg, phase, frontier, fatal, wpc, wtask, weff, wchain,
                wresp, wlinks, fetched, claimed, finished, frozenN, failedN,
                failedExc, handling_url_for, freeze_info, recorded_urls, bar,
                logline, claimAfterFatal, extSeen, result>>

urlForVars == <<url_default_functions, closure, lock, run, stack, raising,
                ncalls, adds, callAdds, callAfter, addAfterEnd, addOnNone,
                everRaised>>

cliVars == <<argv, cliPc, cli_params, freeze_call, exit_code, dest>>

keptVars == <<keptCfg, before, root, temp, keptPc, restoreLeft, frozenOut,
              keptErr>>

vars == <<engineVars, urlForVars, cliVars, keptVars>>

notEngine == <<urlForVars, cliVars, keptVars>>
notUrlFor == <<engineVars, cliVars, keptVars>>
notCli == <<engineVars, urlForVars, keptVars>>
notKept == <<engineVars, urlForVars, cliVars>>

(***************************************************************************)
(* Frontier (spec.md 4.2).                                                 *)
(***************************************************************************)
EmptyFrontier ==
    [state |-> [u \in IntURLs |-> "unseen"],
     exc |-> [u \in IntURLs |-> None],
     written |-> [u \in IntURLs |-> None],
     total_task_count |-> 0, done_task_count |-> 0, failed_task_count |-> 0]

\* submit(url): a newly seen URL becomes a queued task; otherwise a no-op.
Submit(fr, u) ==
    IF fr.state[u] = "unseen"
    THEN [fr EXCEPT !.state[u] = "queued", !.total_task_count = @ + 1]
    ELSE fr

RECURSIVE SubmitAll(_, _)
SubmitAll(fr, S) ==
    IF S = {} THEN fr
    ELSE LET u == CHOOSE x \in S : TRUE
         IN SubmitAll(Submit(fr, u), S \ {u})

\* claim(): one queued task becomes in_progress.
ClaimTask(fr, u) == [fr EXCEPT !.state[u] = "in_progress"]

\* finish(task, outcome): done/failed, counters in the same step.
Finish(fr, u, outcome, exc, content) ==
    [fr EXCEPT !.state[u] = outcome,
               !.exc[u] = exc,
               !.written[u] = content,
               !.done_task_count = @ + 1,
               !.failed_task_count = IF outcome = "failed" THEN @ + 1 ELSE @]

Pending(fr) == {u \in IntURLs : fr.state[u] \in {"queued", "in_progress"}}

(***************************************************************************)
(* Freezer.freeze: the configuration it reads.                             *)
(***************************************************************************)
\* A wrapper whose default policy were the engine's other policy, ignore.
RedirectPolicyDefaultIgnore(cfg) ==
    IF cfg.FREEZER_REDIRECT_POLICY = None THEN "ignore"
    ELSE cfg.FREEZER_REDIRECT_POLICY

\* self.app.config.get('FREEZER_REDIRECT_POLICY', 'follow')
redirect_policy(cfg) ==
    IF cfg.FREEZER_REDIRECT_POLICY = None THEN "follow"
    ELSE cfg.FREEZER_REDIRECT_POLICY


\* The engine's error as raised, without the except clauses.
ConvertErrorPassThrough(err) == err

\* except (ExternalURLError, RelativeURLError): raise ValueError(...)
\* except UnexpectedStatus as e: raise ValueError(f"Unexpected status ...")
ConvertError(err) ==
    IF err.cls \in {"ExternalURLError", "RelativeURLError"}
    THEN [cls |-> "ValueError", msg |-> "External URLs not supported",
          url |-> NoURL]
    ELSE IF err.cls = "UnexpectedStatus"
    THEN [cls |-> "ValueError",
          msg |-> "Unexpected status on URL "
                  \o make_relative_url(PrefixHost, err.url),
          url |-> NoURL]
    ELSE err

\* Recording the URL with its (empty) query part left in.
record_url_raw(rec, u) == rec \cup {u.path \o "?"}

\* record_url(task_info): recorded_urls.add(make_relative_url(prefix, url))
record_url(rec, u) == rec \cup {make_relative_url(PrefixHost, u)}

\* handle_url_for, seen from the engine: one add_url per url_for call once
\* the start hook has run.
handle_url_for_add(fr, handling, u) ==
    IF handling THEN Submit(fr, u) ELSE fr

RECURSIVE UrlForAll(_, _, _)
UrlForAll(fr, handling, S) ==
    IF S = {} THEN fr
    ELSE LET u == CHOOSE x \in S : TRUE
         IN UrlForAll(handle_url_for_add(fr, handling, u), handling, S \ {u})

(***************************************************************************)
(* progressbar.py                                                          *)
(***************************************************************************)
\* update_bar with the operands of the subtraction exchanged.
update_bar_swapped(fr) ==
    [total |-> fr.total_task_count,
     count |-> fr.done_task_count,
     success |-> fr.failed_task_count - fr.done_task_count]

\* ProgressBarPlugin.update_bar
update_bar(fr) ==
    [total |-> fr.total_task_count,
     count |-> fr.done_task_count,
     success |-> fr.done_task_count - fr.failed_task_count]

\* LogPlugin._summary: progress = done / total, kept as the exact quotient
\* <<done, total>>; a zero total raises ZeroDivisionError.
_summary(fr) ==
    IF fr.total_task_count = 0
    THEN [error |-> "ZeroDivisionError", done |-> fr.done_task_count,
          total |-> 0, progress |-> <<0, 0>>, failed |-> fr.failed_task_count]
    ELSE [error |-> None, done |-> fr.done_task_count,
          total |-> fr.total_task_count,
          progress |-> <<fr.done_task_count, fr.total_task_count>>,
          failed |-> fr.failed_task_count]

NoBar == [total |-> 100, count |-> 0, success |-> 0]
NoLog == [error |-> None, done |-> 0, total |-> 0, progress |-> <<0, 0>>,
          failed |-> 0]

(***************************************************************************)
(* One run of Freezer.freeze.                                              *)
(***************************************************************************)
AppConfigs ==
    [FREEZER_REDIRECT_POLICY : {None, "ignore", "error"},
     strict : BOOLEAN]

NoResp == [kind |-> None, links |-> {}, target |-> NoURL]
NoResult == [kind |-> None, err |-> NoErr, urls |-> {}]

EngineInit ==
    /\ appcfg \in AppConfigs
    /\ phase = "new"
    /\ frontier = EmptyFrontier
    /\ fatal = NoErr
    /\ wpc = [w \in Workers |-> "idle"]
    /\ wtask = [w \in Workers |-> NoURL]
    /\ weff = [w \in Workers |-> NoURL]
    /\ wchain = [w \in Workers |-> <<>>]
    /\ wresp = [w \in Workers |-> NoResp]
    /\ wlinks = [w \in Workers |-> {}]
    /\ fetched = [u \in AllURLs |-> 0]
    /\ claimed = [u \in IntURLs |-> 0]
    /\ finished = [u \in IntURLs |-> 0]
    /\ frozenN = [u \in IntURLs |-> 0]
    /\ failedN = [u \in IntURLs |-> 0]
    /\ failedExc = [u \in IntURLs |-> None]
    /\ handling_url_for = FALSE
    /\ freeze_info = None
    /\ recorded_urls = {}
    /\ bar = NoBar
    /\ logline = NoLog
    /\ claimAfterFatal = FALSE
    /\ extSeen = {}
    /\ result = NoResult

\* Freezer.freeze up to the engine's start hook: the Coordinator seeds the
\* Frontier with the root and the generator's extra pages, then fires start
\* (start_hook stores the FreezeInfo and arms handle_url_for).
Start ==
    /\ phase = "new"
    /\ \E extra \in SmallSubsets(IntURLs, MaxLinks) :
          frontier' = SubmitAll(Submit(frontier, RootURL), extra)
    /\ freeze_info' = "FreezeInfo"
    /\ handling_url_for' = TRUE
    /\ phase' = "running"
    /\ UNCHANGED <<appcfg, fatal, wpc, wtask, weff, wchain, wresp,
                   wlinks, fetched, claimed, finished, frozenN, failedN,
                   failedExc, recorded_urls, bar, logline, claimAfterFatal, extSeen,
                   result>>
    /\ UNCHANGED notEngine

\* A worker claims a queued task; no new work is claimed after a fatal error.
Claim(w) ==
    /\ phase = "running"
    /\ wpc[w] = "idle"
    /\ fatal = NoErr
    /\ \E u \in IntURLs :
          /\ frontier.state[u] = "queued"
          /\ frontier' = ClaimTask(frontier, u)
          /\ claimed' = [claimed EXCEPT ![u] = Sat(@ + 1)]
          /\ wtask' = [wtask EXCEPT ![w] = u]
          /\ weff' = [weff EXCEPT ![w] = u]
    /\ wchain' = [wchain EXCEPT ![w] = <<>>]
    /\ wpc' = [wpc EXCEPT ![w] = "fetch"]
    /\ claimAfterFatal' = (claimAfterFatal \/ fatal # NoErr)
    /\ UNCHANGED <<appcfg, phase, fatal, wresp, wlinks, fetched,
                   finished, frozenN, failedN, failedExc, handling_url_for,
                   freeze_info, recorded_urls, bar, logline, extSeen, result>>
    /\ UNCHANGED notEngine

\* The Request Adapter call for the task's effective URL.  The application
\* may answer anything (it need not answer the same way twice); rendering a
\* page may call url_for, which reaches handle_url_for and add_url.
Fetch(w) ==
    /\ wpc[w] = "fetch"
    /\ LET u == weff[w] IN
       /\ fetched' = [fetched EXCEPT ![u] = Sat(@ + 1)]
       /\ \E r \in Responses :
             /\ wresp' = [wresp EXCEPT ![w] = r]
             /\ \E calls \in UrlForCalls(r) :
                   frontier' = UrlForAll(frontier, handling_url_for, calls)
    /\ wpc' = [wpc EXCEPT ![w] = "resolve"]
    /\ UNCHANGED <<appcfg, phase, fatal, wtask, weff, wchain, wlinks, claimed,
                   finished, frozenN, failedN, failedExc, handling_url_for,
                   freeze_info, recorded_urls, bar, logline, claimAfterFatal, extSeen,
                   result>>
    /\ UNCHANGED notEngine

InChain(chain, t) == \E i \in 1..Len(chain) : chain[i] = t


Terminal(outcome, exc, links, err, content) ==
    [next |-> "finish", outcome |-> outcome, exc |-> exc, links |-> links,
     fatal |-> err, eff |-> NoURL, content |-> content]

\* Redirect Resolver (spec.md 4.4) and the classification of a response.
\* An external redirect target fails with ExternalURLError under every policy.
Resolver(policy, strict, chain, resp) ==
    CASE resp.kind = "ok" -> Terminal("done", None, resp.links, NoErr, "page")
      [] resp.kind = "notfound" -> Terminal("failed", "NotFoundWarning", {}, NoErr, None)
      [] resp.kind = "raise" -> Terminal("failed", "TransportError", {}, NoErr, None)
      [] resp.kind = "redirect" ->
           IF IsExternal(resp.target)
           THEN Terminal("failed", "ExternalURLError", {},
                         IF strict THEN Err("ExternalURLError", resp.target)
                         ELSE NoErr, None)
           ELSE IF policy = "error"
           THEN Terminal("failed", "UnexpectedStatus", {}, NoErr, None)
           ELSE IF policy = "ignore"
           THEN Terminal("done", None, {resp.target}, NoErr, "redirect")
           ELSE IF InChain(chain, resp.target)
           THEN Terminal("failed", "RedirectLoop", {}, NoErr, None)
           ELSE [next |-> "fetch", outcome |-> None, exc |-> None,
                 links |-> {}, fatal |-> NoErr, eff |-> resp.target,
                 content |-> None]

\* The first fatal error is the one that reaches the caller.
FirstFatal(old, new) == IF old # NoErr THEN old ELSE new

\* The Coordinator routes the response through the Redirect Resolver; a
\* terminal response finishes the task (finish is the single mutation point
\* of the task's state and the counters).
Resolve(w) ==
    /\ wpc[w] = "resolve"
    /\ LET r == Resolver(redirect_policy(appcfg), appcfg.strict, wchain[w],
                         wresp[w])
           u == wtask[w]
       IN IF r.next = "fetch"
          THEN /\ wchain' = [wchain EXCEPT ![w] = Append(@, r.eff)]
               /\ weff' = [weff EXCEPT ![w] = r.eff]
               /\ wpc' = [wpc EXCEPT ![w] = "fetch"]
               /\ UNCHANGED <<frontier, finished, wlinks, fatal>>
          ELSE /\ frontier' = Finish(frontier, u, r.outcome, r.exc, r.content)
               /\ finished' = [finished EXCEPT ![u] = Sat(@ + 1)]
               /\ wlinks' = [wlinks EXCEPT ![w] = r.links]
               /\ fatal' = FirstFatal(fatal, r.fatal)
               /\ wpc' = [wpc EXCEPT ![w] = "hook"]
               /\ wchain' = [wchain EXCEPT ![w] = <<>>]
               /\ weff' = [weff EXCEPT ![w] = NoURL]
    /\ wresp' = [wresp EXCEPT ![w] = NoResp]
    /\ extSeen' = IF wresp[w].kind = "redirect" /\ IsExternal(wresp[w].target)
                  THEN extSeen \cup {wresp[w].target} ELSE extSeen
    /\ UNCHANGED <<appcfg, phase, wtask, fetched, claimed,
                   frozenN, failedN, failedExc, handling_url_for, freeze_info,
                   recorded_urls, bar, logline, claimAfterFatal, result>>
    /\ UNCHANGED notEngine

\* The Hook Bus fires page_frozen or page_failed on the worker's thread:
\* record_url (page_frozen only), ProgressBarPlugin.update_bar and
\* LogPlugin.page_frozen / page_failed observe the live FreezeInfo.
Hook(w) ==
    /\ wpc[w] = "hook"
    /\ LET u == wtask[w] IN
       IF frontier.state[u] = "done"
       THEN /\ frozenN' = [frozenN EXCEPT ![u] = Sat(@ + 1)]
            /\ recorded_urls' = record_url(recorded_urls, u)
            /\ UNCHANGED <<failedN, failedExc>>
       ELSE /\ failedN' = [failedN EXCEPT ![u] = Sat(@ + 1)]
            /\ failedExc' = [failedExc EXCEPT ![u] = frontier.exc[u]]
            /\ UNCHANGED <<frozenN, recorded_urls>>
    /\ bar' = update_bar(frontier)
    /\ logline' = _summary(frontier)
    /\ wpc' = [wpc EXCEPT ![w] = IF wlinks[w] = {} THEN "idle" ELSE "links"]
    /\ wtask' = [wtask EXCEPT ![w] = IF wlinks[w] = {} THEN NoURL ELSE @]
    /\ UNCHANGED <<appcfg, phase, frontier, fatal, weff, wchain,
                   wresp, wlinks, fetched, claimed, finished,
                   handling_url_for, freeze_info, claimAfterFatal, extSeen, result>>
    /\ UNCHANGED notEngine

\* Newly discovered links go back into the Frontier, one submit at a time.
\* A link outside the prefix is never submitted; in strict mode it is fatal.
SubmitLink(w) ==
    /\ wpc[w] = "links"
    /\ \E l \in wlinks[w] :
          /\ IF IsExternal(l)
             THEN /\ fatal' = IF appcfg.strict
                              THEN FirstFatal(fatal, Err("ExternalURLError", l))
                              ELSE fatal
                  /\ UNCHANGED frontier
             ELSE /\ frontier' = Submit(frontier, l)
                  /\ UNCHANGED fatal
          /\ wlinks' = [wlinks EXCEPT ![w] = @ \ {l}]
          /\ wpc' = [wpc EXCEPT ![w] = IF wlinks[w] = {l} THEN "idle" ELSE "links"]
          /\ wtask' = [wtask EXCEPT ![w] = IF wlinks[w] = {l} THEN NoURL ELSE @]
          /\ extSeen' = IF IsExternal(l) THEN extSeen \cup {l} ELSE extSeen
    /\ UNCHANGED <<appcfg, phase, weff, wchain, wresp, fetched,
                   claimed, finished, frozenN, failedN, failedExc,
                   handling_url_for, freeze_info, recorded_urls, bar, logline,
                   claimAfterFatal, result>>
    /\ UNCHANGED notEngine

AllIdle == \A w \in Workers : wpc[w] = "idle"

\* The Frontier reports no pending work: freeze() returns, and Freezer.freeze
\* returns recorded_urls.
Return ==
    /\ phase = "running"
    /\ fatal = NoErr
    /\ AllIdle
    /\ Pending(frontier) = {}
    /\ phase' = "returned"
    /\ result' = [kind |-> "returned", err |-> NoErr, urls |-> recorded_urls]
    /\ UNCHANGED <<appcfg, frontier, fatal, wpc, wtask, weff, wchain,
                   wresp, wlinks, fetched, claimed, finished, frozenN,
                   failedN, failedExc, handling_url_for, freeze_info,
                   recorded_urls, bar, logline, claimAfterFatal, extSeen>>
    /\ UNCHANGED notEngine

\* A fatal error: in-flight work has completed, nothing new was claimed, the
\* error propagates to Freezer.freeze, which converts it.
Raise ==
    /\ phase = "running"
    /\ fatal # NoErr
    /\ AllIdle
    /\ phase' = "raised"
    /\ result' = [kind |-> "raised", err |-> ConvertError(fatal), urls |-> {}]
    /\ UNCHANGED <<appcfg, frontier, fatal, wpc, wtask, weff, wchain,
                   wresp, wlinks, fetched, claimed, finished, frozenN,
                   failedN, failedExc, handling_url_for, freeze_info,
                   recorded_urls, bar, logline, claimAfterFatal, extSeen>>
    /\ UNCHANGED notEngine

WorkerStep(w) ==
    Claim(w) \/ Fetch(w) \/ Resolve(w) \/ Hook(w) \/ SubmitLink(w)

(***************************************************************************)
(* The url_for interception, step by step (flask_frozen.py 49-70).         *)
(* Each Freezer.freeze call k defines its own closure (freeze_info,        *)
(* handling_url_for, lock) and inserts its handle_url_for at the front of  *)
(* app.url_default_functions; nothing removes it.  Flask's url_for calls   *)
(* every function of that list, then builds the URL (and may raise).       *)
(***************************************************************************)
MaxCalls == 2
Runs == {1, 2}
Threads == {"t1", "t2"}
NoThread == "none"

UrlForFrame(i, top) == [op |-> "url_for", i |-> i, k |-> 0, pc |-> "iter",
                        top |-> top]
HandleFrame(k, pc) == [op |-> "handle", i |-> 0, k |-> k, pc |-> pc,
                       top |-> FALSE]

Top(t) == stack[t][Len(stack[t])]
Pop(t) == SubSeq(stack[t], 1, Len(stack[t]) - 1)
ReplaceTop(t, f) == Append(Pop(t), f)

UrlForInit ==
    /\ url_default_functions = <<>>
    /\ closure = [k \in Runs |-> [freeze_info |-> 0, handling_url_for |-> FALSE]]
    /\ lock = [k \in Runs |-> [owner |-> NoThread, count |-> 0]]
    /\ run = [k \in Runs |-> "none"]
    /\ stack = [t \in Threads |-> <<>>]
    /\ raising = [t \in Threads |-> FALSE]
    /\ ncalls = [t \in Threads |-> 0]
    /\ adds = [k \in Runs |-> 0]
    /\ callAdds = [t \in Threads |-> [k \in Runs |-> 0]]
    /\ callAfter = [t \in Threads |-> FALSE]
    /\ addAfterEnd = [k \in Runs |-> FALSE]
    /\ addOnNone = FALSE
    /\ everRaised = FALSE

NoCallRunning == \A t \in Threads : stack[t] = <<>>

\* Freezer.freeze is entered: freeze_info = None, handling_url_for = False,
\* lock = RLock(), and handle_url_for is inserted at the front of the list.
FreezeBegin(k) ==
    /\ run[k] = "none"
    /\ \A j \in Runs : j < k => run[j] = "ended"
    /\ NoCallRunning
    /\ closure' = [closure EXCEPT ![k] =
                      [freeze_info |-> 0, handling_url_for |-> FALSE]]
    /\ lock' = [lock EXCEPT ![k] = [owner |-> NoThread, count |-> 0]]
    /\ url_default_functions' = <<k>> \o url_default_functions
    /\ run' = [run EXCEPT ![k] = "begun"]
    /\ UNCHANGED <<stack, raising, ncalls, adds, callAdds, callAfter, addAfterEnd,
                   addOnNone, everRaised>>
    /\ UNCHANGED notUrlFor

\* start_hook(new_freeze_info)
start_hook(c, k) == [freeze_info |-> k, handling_url_for |-> TRUE]

\* The engine fires the start hook of run k.
StartHook(k) ==
    /\ run[k] = "begun"
    /\ closure' = [closure EXCEPT ![k] = start_hook(@, k)]
    /\ run' = [run EXCEPT ![k] = "started"]
    /\ UNCHANGED <<url_default_functions, lock, stack, raising, ncalls, adds,
                   callAdds, callAfter, addAfterEnd, addOnNone, everRaised>>
    /\ UNCHANGED notUrlFor

\* freeze(self.app, config) returns or raises; Freezer.freeze ends.
FreezeEnd(k) ==
    /\ run[k] = "started"
    /\ NoCallRunning
    /\ run' = [run EXCEPT ![k] = "ended"]
    /\ UNCHANGED <<url_default_functions, closure, lock, stack, raising,
                   ncalls, adds, callAdds, callAfter, addAfterEnd, addOnNone, everRaised>>
    /\ UNCHANGED notUrlFor

\* Application code on thread t calls url_for (top level).
CallUrlFor(t) ==
    /\ stack[t] = <<>>
    /\ ~raising[t]
    /\ ncalls[t] < MaxCalls
    /\ ncalls' = [ncalls EXCEPT ![t] = @ + 1]
    /\ stack' = [stack EXCEPT ![t] = <<UrlForFrame(1, TRUE)>>]
    /\ callAdds' = [callAdds EXCEPT ![t] = [k \in Runs |-> 0]]
    /\ callAfter' = [callAfter EXCEPT ![t] = run[1] \in {"started", "ended"}]
    /\ UNCHANGED <<url_default_functions, closure, lock, run, raising, adds,
                   addAfterEnd, addOnNone, everRaised>>
    /\ UNCHANGED notUrlFor

\* url_for -> inject_url_defaults: call the next function of the list.
UrlForNextHandler(t) ==
    /\ stack[t] # <<>>
    /\ ~raising[t]
    /\ Top(t).op = "url_for"
    /\ Top(t).i <= Len(url_default_functions)
    /\ stack' = [stack EXCEPT ![t] =
                    Append(ReplaceTop(t, [Top(t) EXCEPT !.i = @ + 1]),
                           HandleFrame(url_default_functions[Top(t).i], "enter"))]
    /\ UNCHANGED <<url_default_functions, closure, lock, run, raising, ncalls,
                   adds, callAdds, callAfter, addAfterEnd, addOnNone, everRaised>>
    /\ UNCHANGED notUrlFor

\* url_for builds the URL once every function ran: it returns, or raises
\* (BuildError).  A nested call returns into handle_url_for.
UrlForBuild(t) ==
    /\ stack[t] # <<>>
    /\ ~raising[t]
    /\ Top(t).op = "url_for"
    /\ Top(t).i > Len(url_default_functions)
    /\ \E fails \in BOOLEAN :
          /\ raising' = [raising EXCEPT ![t] = fails /\ Len(stack[t]) > 1]
          /\ everRaised' = (everRaised \/ (fails /\ Len(stack[t]) > 1))
          /\ stack' = [stack EXCEPT ![t] =
                IF Len(stack[t]) > 1 /\ ~fails
                THEN Append(SubSeq(stack[t], 1, Len(stack[t]) - 2),
                            [stack[t][Len(stack[t]) - 1] EXCEPT !.pc = "add"])
                ELSE Pop(t)]
    /\ UNCHANGED <<url_default_functions, closure, lock, run, ncalls, adds,
                   callAdds, callAfter, addAfterEnd, addOnNone>>
    /\ UNCHANGED notUrlFor

Acquire(l, t) == [owner |-> t, count |-> l.count + 1]
Release(l) == IF l.count = 1 THEN [owner |-> NoThread, count |-> 0]
              ELSE [l EXCEPT !.count = @ - 1]

\* with lock: if handling_url_for: handling_url_for = False; ... url_for(...)
\* The RLock lets its owner in again and blocks every other thread.
HandleEnter(t) ==
    /\ stack[t] # <<>>
    /\ ~raising[t]
    /\ Top(t).op = "handle" /\ Top(t).pc = "enter"
    /\ LET k == Top(t).k IN
       /\ lock[k].owner \in {NoThread, t}
       /\ IF closure[k].handling_url_for
          THEN /\ closure' = [closure EXCEPT ![k].handling_url_for = FALSE]
               /\ lock' = [lock EXCEPT ![k] = Acquire(@, t)]
               /\ stack' = [stack EXCEPT ![t] =
                     Append(ReplaceTop(t, HandleFrame(k, "call")),
                            UrlForFrame(1, FALSE))]
          ELSE /\ stack' = [stack EXCEPT ![t] = Pop(t)]
               /\ UNCHANGED <<closure, lock>>
    /\ UNCHANGED <<url_default_functions, run, raising, ncalls, adds,
                   callAdds, callAfter, addAfterEnd, addOnNone, everRaised>>
    /\ UNCHANGED notUrlFor

\* handling_url_for = True, after add_url returned.
HandleRestore(c) == [c EXCEPT !.handling_url_for = TRUE]

\* freeze_info.add_url(url_for(...)): add_url returns or raises; when it
\* returns, handling_url_for = True and the lock is released.
HandleAdd(t) ==
    /\ stack[t] # <<>>
    /\ ~raising[t]
    /\ Top(t).op = "handle" /\ Top(t).pc = "add"
    /\ LET k == Top(t).k IN
       /\ addOnNone' = (addOnNone \/ closure[k].freeze_info = 0)
       /\ \E fails \in BOOLEAN :
             IF fails
             THEN /\ raising' = [raising EXCEPT ![t] = TRUE]
                  /\ everRaised' = TRUE
                  /\ UNCHANGED <<closure, lock, stack, adds, callAdds,
                                 addAfterEnd>>
             ELSE /\ adds' = [adds EXCEPT ![k] = Sat(@ + 1)]
                  /\ callAdds' = [callAdds EXCEPT ![t][k] = Sat(@ + 1)]
                  /\ addAfterEnd' = [addAfterEnd EXCEPT ![k] =
                                        @ \/ run[k] = "ended"]
                  /\ closure' = [closure EXCEPT ![k] = HandleRestore(@)]
                  /\ lock' = [lock EXCEPT ![k] = Release(@)]
                  /\ stack' = [stack EXCEPT ![t] = Pop(t)]
                  /\ UNCHANGED <<raising, everRaised>>
    /\ UNCHANGED <<url_default_functions, run, ncalls, callAfter>>
    /\ UNCHANGED notUrlFor

\* An exception leaves a frame: the with statement releases the lock (and
\* nothing sets handling_url_for back); it ends at the top-level caller.
Unwind(t) ==
    /\ raising[t]
    /\ IF stack[t] = <<>>
       THEN /\ raising' = [raising EXCEPT ![t] = FALSE]
            /\ UNCHANGED <<stack, lock>>
       ELSE /\ stack' = [stack EXCEPT ![t] = Pop(t)]
            /\ lock' = IF Top(t).op = "handle"
                       THEN [lock EXCEPT ![Top(t).k] = Release(@)]
                       ELSE lock
            /\ UNCHANGED raising
    /\ UNCHANGED <<url_default_functions, closure, run, ncalls, adds,
                   callAdds, callAfter, addAfterEnd, addOnNone, everRaised>>
    /\ UNCHANGED notUrlFor

(***************************************************************************)
(* The command line (cli.py).  A dict key that is not there is Absent;     *)
(* dict.get(key, None) turns Absent into None.                             *)
(***************************************************************************)
Absent == "<absent>"
Get(d, key) == IF d[key] = Absent THEN None ELSE d[key]

\* The options main declares: @click.option lines 12-14.
DeclaredOptions == {"--prefix", "--extra-page", "--config"}
OtherOptions == {"--import-config", "--cleanup"}

CliPrefixes == {None, "", "http://example.com/"}
FilePrefixes == {Absent, None, "http://pyladies.cz/lessons/"}

\* yaml.safe_load of the --config file: a dict, or something else (a list,
\* or None for an empty file).
FileDicts ==
    [kind : {"dict"}, prefix : FilePrefixes,
     extra_pages : {Absent, None, "list"}, extra_files : {Absent, "files"}]
NotADict(kind) ==
    [kind |-> kind, prefix |-> Absent, extra_pages |-> Absent,
     extra_files |-> Absent]
FileConfigs == FileDicts \cup {NotADict("list"), NotADict("NoneType")}
NoConfigOption == NotADict(None)

Argvs ==
    [prefix : CliPrefixes,
     extra_page : {<<>>, <<"/extra/">>},
     config : FileConfigs \cup {NoConfigOption},
     other : SUBSET OtherOptions,
     app_fails : BOOLEAN]

NoParams == [prefix |-> Absent, extra_pages |-> <<>>, extra_files |-> Absent]
NoCall == [called |-> FALSE, config |-> NoParams]
NoDest == [exists |-> FALSE, files |-> {}]

CliInit ==
    /\ argv \in Argvs
    /\ cliPc = "parse"
    /\ cli_params = NoParams
    /\ freeze_call = NoCall
    /\ exit_code = -1
    /\ dest = NoDest

CliIdle ==
    /\ CliInit
    /\ argv = [prefix |-> None, extra_page |-> <<>>, config |-> NoConfigOption,
               other |-> {}, app_fails |-> FALSE]

\* click parses the command line against the declared options: an option
\* main does not declare ends the program with a usage error, exit code 2,
\* before main's body runs.
CliParse ==
    /\ cliPc = "parse"
    /\ IF argv.other \subseteq DeclaredOptions
       THEN /\ cliPc' = "params"
            /\ UNCHANGED exit_code
       ELSE /\ cliPc' = "exit"
            /\ exit_code' = 2
    /\ UNCHANGED <<argv, cli_params, freeze_call, dest>>
    /\ UNCHANGED notCli

\* cli_params = {'extra_pages': list(extra_page)};
\* if prefix != None: cli_params['prefix'] = prefix
InitialParams(prefix, extra_page) ==
    [prefix |-> IF prefix # None THEN prefix ELSE Absent,
     extra_pages |-> extra_page,
     extra_files |-> Absent]

CliParams ==
    /\ cliPc = "params"
    /\ cli_params' = InitialParams(argv.prefix, argv.extra_page)
    /\ cliPc' = IF argv.config.kind # None THEN "config" ELSE "freeze"
    /\ UNCHANGED <<argv, freeze_call, exit_code, dest>>
    /\ UNCHANGED notCli

\* The merge without the "prefix is None" test: the file's prefix wins.
MergePrefixFileWins(params, file_config, prefix) ==
    IF Get(file_config, "prefix") # None
    THEN [params EXCEPT !.prefix = file_config.prefix]
    ELSE params

\* if (file_config.get('prefix', None) != None) and (prefix is None):
\*     cli_params['prefix'] = file_config['prefix']
MergePrefix(params, file_config, prefix) ==
    IF Get(file_config, "prefix") # None /\ prefix = None
    THEN [params EXCEPT !.prefix = file_config.prefix]
    ELSE params

\* if file_config.get('extra_pages', None) != None:
\*     cli_params['extra_pages'].extend(file_config['extra_pages'])
MergeExtraPages(params, file_config) ==
    IF Get(file_config, "extra_pages") # None
    THEN [params EXCEPT !.extra_pages = @ \o <<"/from-file/">>]
    ELSE params

\* cli_params['extra_files'] = file_config.get('extra_files', None)
MergeExtraFiles(params, file_config) ==
    [params EXCEPT !.extra_files = Get(file_config, "extra_files")]

\* if config != None: file_config = yaml.safe_load(config); not a dict
\* raises SyntaxError (exit code 1), a dict is merged into cli_params.
CliConfig ==
    /\ cliPc = "config"
    /\ IF argv.config.kind # "dict"
       THEN /\ cliPc' = "exit"
            /\ exit_code' = 1
            /\ UNCHANGED cli_params
       ELSE /\ cli_params' =
                 MergeExtraFiles(
                    MergeExtraPages(
                       MergePrefix(cli_params, argv.config, argv.prefix),
                       argv.config),
                    argv.config)
            /\ cliPc' = "freeze"
            /\ UNCHANGED exit_code
    /\ UNCHANGED <<argv, freeze_call, dest>>
    /\ UNCHANGED notCli

\* freeze(app, dest_path, cli_params), seen from the command line: output is
\* written under dest_path; a failing freeze raises and leaves the partial
\* output on disk unless its config asks for cleanup (spec.md section 7).
\* The dict main passes never has a 'cleanup' key.
FreezeFromCli(params, fails) ==
    [exit_code |-> IF fails THEN 1 ELSE 0,
     dest |-> [exists |-> TRUE, files |-> {"index.html"}]]

CliFreeze ==
    /\ cliPc = "freeze"
    /\ freeze_call' = [called |-> TRUE, config |-> cli_params]
    /\ LET r == FreezeFromCli(cli_params, argv.app_fails) IN
       /\ exit_code' = r.exit_code
       /\ dest' = r.dest
    /\ cliPc' = "exit"
    /\ UNCHANGED <<argv, cli_params>>
    /\ UNCHANGED notCli

(***************************************************************************)
(* Kept files (flask_frozen.py 79-90, 113-130, 201-239).  A path is the    *)
(* sequence of its characters, so that fnmatch, Path.name and strip('/')   *)
(* work on what they work on in the code.                                  *)
(***************************************************************************)
MaxPatterns == 1

FilesU == { <<"x">>, <<"x", "/", "i">>, <<"k">>, <<"d", "/", "k">> }
PatternsU == { <<"*">>, <<"k">>, <<"x">>, <<"d", "/", "*">>,
               <<"/", "x", "/", "i", "/">> }

\* fnmatch.fnmatch(name, pattern) for patterns of literals, '*' and '?'.
RECURSIVE fnmatch(_, _)
fnmatch(name, pat) ==
    IF pat = <<>> THEN name = <<>>
    ELSE IF Head(pat) = "*"
    THEN fnmatch(name, Tail(pat)) \/ (name # <<>> /\ fnmatch(Tail(name), pat))
    ELSE /\ name # <<>>
         /\ (Head(pat) = "?" \/ Head(pat) = Head(name))
         /\ fnmatch(Tail(name), Tail(pat))

HasSlash(q) == \E i \in 1..Len(q) : q[i] = "/"

\* Path(filename).name: what follows the last '/'.
RECURSIVE BaseName(_)
BaseName(f) ==
    IF ~HasSlash(f) THEN f ELSE BaseName(Tail(f))

\* n.strip('/')
RECURSIVE StripSlashes(_)
StripSlashes(q) ==
    IF q = <<>> THEN q
    ELSE IF Head(q) = "/" THEN StripSlashes(Tail(q))
    ELSE IF q[Len(q)] = "/" THEN StripSlashes(SubSeq(q, 1, Len(q) - 1))
    ELSE q

\* save_kept_files: basename_kept are the patterns without '/', matched
\* against the file's name; path_kept are the others, stripped of '/',
\* matched against the relative path.
Keep(f, patterns) ==
    \/ \E q \in patterns : ~HasSlash(q) /\ fnmatch(BaseName(f), q)
    \/ \E q \in patterns : HasSlash(q) /\ fnmatch(f, StripSlashes(q))

\* kept_file_patterns of Freezer.freeze (lines 79-85).
kept_file_patterns(cfg) ==
    IF cfg.FREEZER_SKIP_EXISTING THEN {<<"*">>}
    ELSE IF ~cfg.FREEZER_REMOVE_EXTRA_FILES THEN {<<"*">>}
    ELSE cfg.FREEZER_DESTINATION_IGNORE

\* The file system under the root: a path is a directory when a file lies
\* below it; a set of files is possible when none is a directory of it.
IsPrefixDir(d, f) ==
    /\ Len(f) > Len(d) + 1
    /\ SubSeq(f, 1, Len(d)) = d
    /\ f[Len(d) + 1] = "/"
Present(fs) == {f \in FilesU : fs[f] # "none"}
IsDirIn(fs, d) == \E f \in Present(fs) : IsPrefixDir(d, f)
ParentIsFile(fs, f) == \E d \in Present(fs) : IsPrefixDir(d, f)
Possible(S) == \A f, g \in S : ~IsPrefixDir(f, g)
FileSets == {S \in SUBSET FilesU : Possible(S)}
NoFiles == [f \in FilesU |-> "none"]

KeptConfigs ==
    [FREEZER_REMOVE_EXTRA_FILES : BOOLEAN,
     FREEZER_SKIP_EXISTING : BOOLEAN,
     FREEZER_DESTINATION_IGNORE : SmallSubsets(PatternsU, MaxPatterns)]

KeptInit ==
    /\ keptCfg \in KeptConfigs
    /\ \E S \in FileSets : \E there \in BOOLEAN :
          /\ (S # {} => there)
          /\ before = [exists |-> there, files |-> S]
          /\ root = [exists |-> there,
                     files |-> [f \in FilesU |-> IF f \in S THEN "old" ELSE "none"]]
    /\ temp = [made |-> FALSE, files |-> {}]
    /\ keptPc = "save"
    /\ restoreLeft = {}
    /\ frozenOut = {}
    /\ keptErr = None

KeptIdle ==
    /\ KeptInit
    /\ keptCfg = [FREEZER_REMOVE_EXTRA_FILES |-> TRUE,
                  FREEZER_SKIP_EXISTING |-> FALSE,
                  FREEZER_DESTINATION_IGNORE |-> {}]
    /\ before = [exists |-> FALSE, files |-> {}]

\* if kept_file_patterns: kept_file_dir = save_kept_files(...) else None.
\* walk_directory of a root that does not exist yields nothing.
KeptSave ==
    /\ keptPc = "save"
    /\ LET patterns == kept_file_patterns(keptCfg) IN
       temp' = IF patterns # {}
               THEN [made |-> TRUE,
                     files |-> {f \in Present(root.files) : Keep(f, patterns)}]
               ELSE [made |-> FALSE, files |-> {}]
    /\ keptPc' = "rmtree"
    /\ UNCHANGED <<keptCfg, before, root, restoreLeft, frozenOut, keptErr>>
    /\ UNCHANGED notKept

\* if Path(self.root).exists(): shutil.rmtree(self.root)
KeptRmtree ==
    /\ keptPc = "rmtree"
    /\ root' = [exists |-> FALSE, files |-> NoFiles]
    /\ keptPc' = "freeze"
    /\ UNCHANGED <<keptCfg, before, temp, restoreLeft, frozenOut, keptErr>>
    /\ UNCHANGED notKept

\* freeze(self.app, config): writes its output under the root; it may raise,
\* and on an error it may have removed the output directory.
KeptFreeze ==
    /\ keptPc = "freeze"
    /\ \E out \in FileSets : \E raised, removed \in BOOLEAN :
          /\ removed => raised
          /\ (~raised) => out # {}
          /\ frozenOut' = IF removed THEN {} ELSE out
          /\ root' = IF removed THEN [exists |-> FALSE, files |-> NoFiles]
                     ELSE [exists |-> TRUE,
                           files |-> [f \in FilesU |->
                                        IF f \in out THEN "new" ELSE "none"]]
    /\ keptPc' = "mkdir"
    /\ UNCHANGED <<keptCfg, before, temp, restoreLeft, keptErr>>
    /\ UNCHANGED notKept

\* finally: Path(self.root).mkdir(exist_ok=True); then, if kept_file_dir,
\* restore_kept_files walks the temporary directory.
KeptMkdir ==
    /\ keptPc = "mkdir"
    /\ root' = [root EXCEPT !.exists = TRUE]
    /\ restoreLeft' = temp.files
    /\ keptPc' = IF temp.made THEN "restore" ELSE "done"
    /\ UNCHANGED <<keptCfg, before, temp, frozenOut, keptErr>>
    /\ UNCHANGED notKept

\* if restore_all or not dest.exists(): dest.exists() is true of a file and
\* of a directory, and false below a file.
ShouldRestore(restore_all, fs, f) ==
    restore_all \/ ~(fs[f] # "none" \/ IsDirIn(fs, f))

\* One file of restore_kept_files' walk: dest.parent.mkdir(parents=True,
\* exist_ok=True) raises FileExistsError when a parent is a file, and
\* shutil.copyfile raises IsADirectoryError when dest is a directory.  After
\* the walk kept_file_dir.cleanup() removes the temporary directory.
KeptRestore ==
    /\ keptPc = "restore"
    /\ IF restoreLeft = {}
       THEN /\ temp' = [made |-> FALSE, files |-> {}]
            /\ keptPc' = "done"
            /\ UNCHANGED <<root, restoreLeft, keptErr>>
       ELSE \E f \in restoreLeft :
              /\ restoreLeft' = restoreLeft \ {f}
              /\ UNCHANGED temp
              /\ IF ~ShouldRestore(keptCfg.FREEZER_SKIP_EXISTING, root.files, f)
                 THEN UNCHANGED <<root, keptErr, keptPc>>
                 ELSE IF ParentIsFile(root.files, f)
                 THEN /\ keptErr' = "FileExistsError"
                      /\ keptPc' = "done"
                      /\ UNCHANGED root
                 ELSE IF IsDirIn(root.files, f)
                 THEN /\ keptErr' = "IsADirectoryError"
                      /\ keptPc' = "done"
                      /\ UNCHANGED root
                 ELSE /\ root' = [root EXCEPT !.files[f] = "old"]
                      /\ UNCHANGED <<keptErr, keptPc>>
    /\ UNCHANGED <<keptCfg, before, frozenOut>>
    /\ UNCHANGED notKept

(***************************************************************************)
(* Specifications.                                                         *)
(***************************************************************************)
EngineIdle ==
    /\ EngineInit
    /\ appcfg = [FREEZER_REDIRECT_POLICY |-> None, strict |-> TRUE]

Init == EngineInit /\ UrlForInit /\ CliIdle /\ KeptIdle

Next ==
    \/ Start
    \/ \E w \in Workers : WorkerStep(w)
    \/ Return
    \/ Raise

Spec == Init /\ [][Next]_vars

\* The workers of the pool keep running until the run has ended.
FairSpec == Spec /\ WF_vars(Next)

InitUrlFor == EngineIdle /\ UrlForInit /\ CliIdle /\ KeptIdle

NextUrlFor ==
    \/ \E k \in Runs : FreezeBegin(k) \/ StartHook(k) \/ FreezeEnd(k)
    \/ \E t \in Threads :
          \/ CallUrlFor(t)
          \/ UrlForNextHandler(t)
          \/ UrlForBuild(t)
          \/ HandleEnter(t)
          \/ HandleAdd(t)
          \/ Unwind(t)

SpecUrlFor == InitUrlFor /\ [][NextUrlFor]_vars

InitCli == EngineIdle /\ UrlForInit /\ CliInit /\ KeptIdle

NextCli == CliParse \/ CliParams \/ CliConfig \/ CliFreeze

SpecCli == InitCli /\ [][NextCli]_vars

InitKept == EngineIdle /\ UrlForInit /\ CliIdle /\ KeptInit

NextKept == KeptSave \/ KeptRmtree \/ KeptFreeze \/ KeptMkdir \/ KeptRestore

SpecKept == InitKept /\ [][NextKept]_vars

(***************************************************************************)
(* Properties of one run (Spec, FairSpec).                                 *)
(***************************************************************************)
Ended == phase \in {"returned", "raised"}
DefaultPolicy == appcfg.FREEZER_REDIRECT_POLICY = None

\* C1: the Request Adapter is invoked at most once for each URL in a run.
C1_NoDuplicateFetch == \A u \in AllURLs : fetched[u] <= 1

\* The Frontier's part of C1: no URL is claimed twice and a URL becomes a
\* task at most once (total_task_count counts the URLs seen).
FrontierDedup ==
    /\ \A u \in IntURLs : claimed[u] <= 1
    /\ frontier.total_task_count
         = Cardinality({u \in IntURLs : frontier.state[u] # "unseen"})

\* C2: 0 <= failed <= done <= total and total >= 1 in every state of a run
\* and in what update_bar and _summary computed at each callback; the
\* counters never decrease; done = total when the run completes.
C2_StateInv ==
    /\ 0 <= frontier.failed_task_count
    /\ frontier.failed_task_count <= frontier.done_task_count
    /\ frontier.done_task_count <= frontier.total_task_count
    /\ phase # "new" => frontier.total_task_count >= 1
    /\ bar.success >= 0
    /\ bar.count <= bar.total
    /\ bar.total >= 1
    /\ logline.error = None
    /\ phase = "returned"
         => frontier.done_task_count = frontier.total_task_count

C2_Monotone ==
    /\ frontier'.total_task_count >= frontier.total_task_count
    /\ frontier'.done_task_count >= frontier.done_task_count
    /\ frontier'.failed_task_count >= frontier.failed_task_count

C2_Counters == [](C2_StateInv) /\ [][C2_Monotone]_vars

\* C2 witness: a callback saw one failure among two finished tasks and the
\* run completed.
C2_Witness ==
    /\ phase = "returned"
    /\ bar.count = 2 /\ bar.success = 1
    /\ logline.failed = 1 /\ logline.progress = <<2, 2>>

\* C3: a task moves queued -> in_progress -> done | failed and never back;
\* it is finished once; exactly one of page_frozen / page_failed fires for
\* it, once, page_failed with the task's URL and exception, page_frozen
\* reaching record_url.
StateRank(st) ==
    CASE st = "unseen" -> 0
      [] st = "queued" -> 1
      [] st = "in_progress" -> 2
      [] st \in {"done", "failed"} -> 3

C3_StateInv ==
    /\ \A u \in IntURLs :
          /\ finished[u] <= 1
          /\ frozenN[u] + failedN[u] <= 1
          /\ frozenN[u] = 1 => frontier.state[u] = "done"
          /\ failedN[u] = 1
               => /\ frontier.state[u] = "failed"
                  /\ failedExc[u] = frontier.exc[u]
                  /\ failedExc[u] # None
          /\ (Ended /\ frontier.state[u] = "done") => frozenN[u] = 1
          /\ (Ended /\ frontier.state[u] = "failed") => failedN[u] = 1
    /\ recorded_urls
         = {make_relative_url(PrefixHost, u) : u \in {v \in IntURLs : frozenN[v] = 1}}

C3_Forward ==
    \A u \in IntURLs :
       \/ frontier'.state[u] = frontier.state[u]
       \/ /\ StateRank(frontier'.state[u]) = StateRank(frontier.state[u]) + 1
          /\ frontier.state[u] \notin {"done", "failed"}

C3_ExactlyOnce == [](C3_StateInv) /\ [][C3_Forward]_vars

\* C3 witness: the run is over with one task frozen and one failed.
C3_Witness ==
    /\ Ended
    /\ \E u, v \in IntURLs :
          /\ frozenN[u] = 1 /\ failedN[v] = 1
          /\ make_relative_url(PrefixHost, u) \in recorded_urls

\* C4: under the wrapper's default policy (follow) a redirect to an internal
\* target is either followed (the target joins the chain and is fetched
\* next) or, when the target is already in the chain, fails that task alone
\* with RedirectLoop; a task fetches a bounded number of times, and the run
\* ends, with the Frontier empty when it returns.
C4_ResolveStep ==
    \A w \in Workers :
       (/\ DefaultPolicy
        /\ wpc[w] = "resolve"
        /\ wpc'[w] # "resolve"
        /\ wresp[w].kind = "redirect"
        /\ ~IsExternal(wresp[w].target))
       => IF InChain(wchain[w], wresp[w].target)
          THEN /\ frontier'.state[wtask[w]] = "failed"
               /\ frontier'.exc[wtask[w]] = "RedirectLoop"
               /\ fatal' = fatal
               /\ wpc'[w] = "hook"
          ELSE /\ wpc'[w] = "fetch"
               /\ weff'[w] = wresp[w].target
               /\ wchain'[w] = Append(wchain[w], wresp[w].target)

C4_StateInv ==
    /\ \A w \in Workers :
          /\ Len(wchain[w]) <= Cardinality(IntURLs)
          /\ \A i, j \in 1..Len(wchain[w]) :
                wchain[w][i] = wchain[w][j] => i = j
    /\ fatal.cls # "RedirectLoop"
    /\ phase = "returned" => Pending(frontier) = {}

C4_RedirectLoop ==
    /\ [][C4_ResolveStep]_vars
    /\ [](C4_StateInv)
    /\ (DefaultPolicy => <>Ended)

\* C4 witness: /a -> / -> /a: the task failed as a loop after fetching a URL
\* a second time, and the run returned.
C4_Witness ==
    /\ DefaultPolicy
    /\ phase = "returned"
    /\ \E u \in IntURLs :
          frontier.exc[u] = "RedirectLoop" /\ fetched[u] = 2

Executing(k) ==
    \E t \in Threads : \E i \in 1..Len(stack[t]) :
       stack[t][i].op = "handle" /\ stack[t][i].k = k

InCriticalSection(t, k) ==
    \E i \in 1..Len(stack[t]) :
       /\ stack[t][i].op = "handle" /\ stack[t][i].k = k
       /\ stack[t][i].pc \in {"call", "add"}

\* C8: once Freezer.freeze call k has returned or raised, no URL is
\* submitted to its FreezeInfo again (also not by a url_for call made during
\* a later freeze of the same application).
C8_FreezeInfoNotReused == \A k \in Runs : ~addAfterEnd[k]

\* C9: after start, whenever no handle_url_for call is executing, the
\* handling flag is True again, also after url_for or add_url raised.
C9_FlagRestored ==
    \A k \in Runs :
       (run[k] \in {"started", "ended"} /\ ~Executing(k))
          => closure[k].handling_url_for

\* The parts of the guard that do not depend on exceptions: add_url is never
\* called before the start hook stored the FreezeInfo; the lock admits one
\* thread at a time; the nested call is on the stack of the handler that
\* made it exactly once per handler; and, with one freeze call and no
\* exception so far, a finished top-level call made after start has
\* submitted exactly one URL.
UrlForGuard ==
    /\ ~addOnNone
    /\ \A k \in Runs : \A t1, t2 \in Threads :
          (InCriticalSection(t1, k) /\ InCriticalSection(t2, k)) => t1 = t2
    /\ \A k \in Runs : \A t \in Threads :
          Cardinality({i \in 1..Len(stack[t]) :
                          /\ stack[t][i].op = "handle" /\ stack[t][i].k = k
                          /\ stack[t][i].pc \in {"call", "add"}}) <= 1
    /\ \A t \in Threads :
          (/\ run[2] = "none" /\ ~everRaised
           /\ callAfter[t] /\ stack[t] = <<>>)
             => callAdds[t][1] = 1

(***************************************************************************)
(* Properties of the command line (SpecCli).                               *)
(***************************************************************************)
FilePrefix ==
    IF argv.config.kind = "dict" /\ argv.config.prefix \notin {Absent, None}
    THEN argv.config.prefix ELSE Absent

\* C6: the prefix passed to freeze is the --prefix option when given,
\* otherwise the config file's prefix when it has one, otherwise there is no
\* prefix key; the file never overrides --prefix.
C6_PrefixPrecedence ==
    freeze_call.called
       => freeze_call.config.prefix
            = IF argv.prefix # None THEN argv.prefix ELSE FilePrefix

\* C6 witness: test_cli_prefix_conflict: --prefix and a config file with
\* another prefix, and freeze was called.
C6_Witness ==
    /\ freeze_call.called
    /\ argv.prefix = "http://example.com/"
    /\ argv.config.kind = "dict"
    /\ argv.config.prefix = "http://pyladies.cz/lessons/"
    /\ freeze_call.config.prefix = "http://example.com/"

\* C7: with --import-config (a configuration that disables cleanup) a
\* failing freeze exits non-zero and leaves the destination directory with
\* index.html in it; with --cleanup as well, the directory is gone.
C7_CleanupFromCli ==
    (/\ cliPc = "exit"
     /\ "--import-config" \in argv.other
     /\ argv.app_fails)
       => /\ exit_code > 0
          /\ IF "--cleanup" \in argv.other
             THEN ~dest.exists
             ELSE dest.exists /\ "index.html" \in dest.files

(***************************************************************************)
(* Properties of the kept files (SpecKept).                                *)
(***************************************************************************)
\* The files the claim calls kept.
KeptByConfig(f) ==
    IF ~keptCfg.FREEZER_REMOVE_EXTRA_FILES \/ keptCfg.FREEZER_SKIP_EXISTING
    THEN TRUE
    ELSE Keep(f, keptCfg.FREEZER_DESTINATION_IGNORE)

KeptFilesFrame ==
    /\ \A f \in before.files : KeptByConfig(f) => root.files[f] # "none"
    /\ \A f \in before.files \cap frozenOut :
          KeptByConfig(f)
             => root.files[f] = IF keptCfg.FREEZER_SKIP_EXISTING
                                THEN "old" ELSE "new"
    /\ \A f \in FilesU :
          (f \notin frozenOut /\ ~(f \in before.files /\ KeptByConfig(f)))
             => root.files[f] = "none"
    /\ root.exists
    /\ keptErr = None

\* C10: after Freezer.freeze every kept file of the old output root is there
\* again; a restored file replaces a newly frozen one only under
\* FREEZER_SKIP_EXISTING; files neither kept nor frozen are gone; the root
\* exists.
C10_KeptFilesRestored == keptPc = "done" => KeptFilesFrame

\* The same, when no kept file's path is a directory of the new output and
\* none lies below a file of the new output.
PathConflict ==
    \E f \in before.files : \E g \in frozenOut :
       KeptByConfig(f) /\ (IsPrefixDir(f, g) \/ IsPrefixDir(g, f))

KeptFilesRestoredWithoutConflict ==
    (keptPc = "done" /\ ~PathConflict) => KeptFilesFrame

=============================================================================
